---- MODULE Spec2Model ----
(***************************************************************************)
(* Model of generate_m3u.py: fetch three JSON datasets, join them by       *)
(* channel id (process_data), render the playlist (generate_m3u_file) and  *)
(* write it to OUTPUT_FILE (main).                                         *)
(*                                                                         *)
(* Text whose characters matter (names, categories, labels) is a sequence  *)
(* of Unicode code points, so that str.capitalize and the ordinal string   *)
(* comparison used by list.sort are computed, not assumed.  Channel ids    *)
(* and URLs are only compared for equality and emptiness and are TLA+      *)
(* strings.  A JSON object is a record whose DOMAIN is its set of keys, so *)
(* that a missing key and an empty value are different inputs.             *)
(***************************************************************************)
EXTENDS Integers, Sequences, FiniteSets, TLC

VARIABLES
    pc,                 \* position in main, or in a direct call of a function
    jsonErrorClass,     \* exception class response.json() raises in this build
    outcome,            \* what each HTTP request met: url name -> kind
    channels_data,      \* result of fetch_json(API_URLS['channels'])
    streams_data,       \* result of fetch_json(API_URLS['streams'])
    logos_data,         \* result of fetch_json(API_URLS['logos'])
    streams_map,        \* process_data: { channel_id: stream_url }
    logos_map,          \* process_data: { channel_id: logo_url }
    processed_channels, \* the joined records
    m3u_content,        \* the rendered playlist, a sequence of lines
    file,               \* OUTPUT_FILE on disk
    file_before,        \* OUTPUT_FILE as it was before the run
    opened,             \* open(OUTPUT_FILE, 'w') has succeeded
    invoked,            \* functions main has called so far
    console             \* what has been printed, in order

vars == <<pc, jsonErrorClass, outcome, channels_data, streams_data, logos_data,
          streams_map, logos_map, processed_channels, m3u_content,
          file, file_before, opened, invoked, console>>

----------------------------------------------------------------------------
(* Bounds of the model *)

MaxBody == 2
MaxStreams == 2
MaxLogos == 2
MaxChannels == 2
MaxJoinStreams == 2
MaxJoinLogos == 1
MaxRecords == 3

RECURSIVE SeqsUpTo(_, _)
SeqsUpTo(S, n) ==
    IF n = 0 THEN {<<>>}
    ELSE LET shorter == SeqsUpTo(S, n - 1)
         IN  shorter \cup {Append(s, x) : s \in {t \in shorter : Len(t) = n - 1}, x \in S}

----------------------------------------------------------------------------
(* Text *)

\* 'Sin Categoría'
SIN_CATEGORIA == <<83, 105, 110, 32, 67, 97, 116, 101, 103, 111, 114, 237, 97>>

\* 'Nombre Desconocido'
NOMBRE_DESCONOCIDO ==
    <<78, 111, 109, 98, 114, 101, 32, 68, 101, 115, 99, 111, 110, 111, 99, 105, 100, 111>>

\* str.lower / str.upper of one character, for ASCII and the Latin-1 letters
\* (every character the model draws is one of these).
Lower(c) ==
    IF (c >= 65 /\ c <= 90) \/ (c >= 192 /\ c <= 222 /\ c # 215) THEN c + 32 ELSE c

Upper(c) ==
    IF (c >= 97 /\ c <= 122) \/ (c >= 224 /\ c <= 254 /\ c # 247) THEN c - 32 ELSE c

\* str.capitalize(): first character upper-cased, every other one lower-cased.
capitalize(s) ==
    IF s = <<>> THEN <<>>
    ELSE <<Upper(s[1])>> \o [i \in 1..(Len(s) - 1) |-> Lower(s[i + 1])]

\* a < b for str: ordinal comparison, code point by code point.
RECURSIVE StrLess(_, _)
StrLess(a, b) ==
    IF b = <<>> THEN FALSE
    ELSE IF a = <<>> THEN TRUE
    ELSE IF a[1] < b[1] THEN TRUE
    ELSE IF a[1] > b[1] THEN FALSE
    ELSE StrLess(Tail(a), Tail(b))

----------------------------------------------------------------------------
(* process_data *)

Has(d, k) == k \in DOMAIN d

EmptyMap == [k \in {} |-> ""]

\* m[k] = v
Put(m, k, v) == (k :> v) @@ m

ShouldInsert_lastWins(entry, m) ==
    /\ Has(entry, "channel") /\ entry.channel # ""
    /\ Has(entry, "url") /\ entry.url # ""

ShouldInsert_anyUrl(entry, m) ==
    /\ Has(entry, "channel") /\ entry.channel # ""
    /\ Has(entry, "url")
    /\ entry.channel \notin DOMAIN m

\* if channel_id and stream_url and channel_id not in streams_map
ShouldInsert(entry, m) ==
    /\ Has(entry, "channel") /\ entry.channel # ""
    /\ Has(entry, "url") /\ entry.url # ""
    /\ entry.channel \notin DOMAIN m

\* The loop over streams, and the identical loop over logos.
RECURSIVE BuildMapFrom(_, _, _)
BuildMapFrom(entries, i, m) ==
    IF i > Len(entries) THEN m
    ELSE LET entry == entries[i]
         IN  IF ShouldInsert(entry, m)
             THEN BuildMapFrom(entries, i + 1, Put(m, entry.channel, entry.url))
             ELSE BuildMapFrom(entries, i + 1, m)

BuildMap(entries) == BuildMapFrom(entries, 1, EmptyMap)

\* stream_url = streams_map.get(channel_id); if not stream_url: continue
NoStream(channel, smap) ==
    ~ (Has(channel, "id") /\ channel.id \in DOMAIN smap /\ smap[channel.id] # "")

ChannelName_orEmpty(channel) ==
    IF Has(channel, "name") /\ channel.name # <<>> THEN channel.name
    ELSE NOMBRE_DESCONOCIDO

\* channel.get('name', 'Nombre Desconocido')
ChannelName(channel) ==
    IF Has(channel, "name") THEN channel.name ELSE NOMBRE_DESCONOCIDO

\* logos_map.get(channel_id, '')
LogoOf(channel, lmap) ==
    IF channel.id \in DOMAIN lmap THEN lmap[channel.id] ELSE ""

\* categories = channel.get('categories', []); categories[0] if categories else ...
GroupTitle(channel) ==
    LET categories == IF Has(channel, "categories") THEN channel.categories ELSE <<>>
    IN  IF categories # <<>> THEN categories[1] ELSE SIN_CATEGORIA

JoinedRecord(channel, smap, lmap) ==
    [id    |-> channel.id,
     name  |-> ChannelName(channel),
     logo  |-> LogoOf(channel, lmap),
     group |-> capitalize(GroupTitle(channel)),
     url   |-> smap[channel.id]]

RECURSIVE JoinFrom(_, _, _, _, _)
JoinFrom(channels, i, smap, lmap, acc) ==
    IF i > Len(channels) THEN acc
    ELSE IF NoStream(channels[i], smap)
         THEN JoinFrom(channels, i + 1, smap, lmap, acc)
         ELSE JoinFrom(channels, i + 1, smap, lmap,
                       Append(acc, JoinedRecord(channels[i], smap, lmap)))

process_data(channels, streams, logos) ==
    JoinFrom(channels, 1, BuildMap(streams), BuildMap(logos), <<>>)

----------------------------------------------------------------------------
(* generate_m3u_file *)

\* Position at which a stable sort places x among the already sorted records:
\* after every record whose name is not greater than x's.
InsertByName(sorted, x) ==
    LET p == Cardinality({i \in 1..Len(sorted) : ~ StrLess(x.name, sorted[i].name)})
    IN  SubSeq(sorted, 1, p) \o <<x>> \o SubSeq(sorted, p + 1, Len(sorted))

RECURSIVE SortFrom(_, _, _)
SortFrom(chs, i, acc) ==
    IF i > Len(chs) THEN acc ELSE SortFrom(chs, i + 1, InsertByName(acc, chs[i]))

SortByName_unsorted(chs) == chs

\* channels.sort(key=lambda x: x['name']): a stable sort on the name alone
SortByName(chs) == SortFrom(chs, 1, <<>>)

HeaderLine == [tag |-> "#EXTM3U"]

ExtinfLine(ch) ==
    [tag |-> "#EXTINF:-1", tvg_id |-> ch.id, tvg_logo |-> ch.logo,
     group_title |-> ch.group, name |-> ch.name]

UrlLine(ch) == [tag |-> "url", url |-> ch.url]

RECURSIVE LinesFrom(_, _, _)
LinesFrom(chs, i, acc) ==
    IF i > Len(chs) THEN acc
    ELSE LinesFrom(chs, i + 1, acc \o <<ExtinfLine(chs[i]), UrlLine(chs[i])>>)

generate_m3u_file_skipFirst(chs) == LinesFrom(SortByName(chs), 2, <<HeaderLine>>)

\* The text returned by generate_m3u_file(chs), as its sequence of lines.
generate_m3u_file(chs) == LinesFrom(SortByName(chs), 1, <<HeaderLine>>)

----------------------------------------------------------------------------
(* Inputs *)

\* Entries of streams.json: two channels, two URLs, and every way of lacking
\* a usable channel or url (key missing, value empty).
StreamEntries ==
    { [channel |-> "c1", url |-> "u1"], [channel |-> "c1", url |-> "u2"],
      [channel |-> "c2", url |-> "u1"], [channel |-> "c1", url |-> ""],
      [channel |-> "", url |-> "u1"], [channel |-> "c1"], [url |-> "u1"] }

LogoEntries ==
    { [channel |-> "c1", url |-> "l1"], [channel |-> "c1", url |-> "l2"],
      [channel |-> "c2", url |-> "l1"], [channel |-> "c1", url |-> ""],
      [url |-> "l1"] }

\* Entries of channels.json: a repeated id (c1, c2), a channel no stream names
\* (c3), a missing id, a missing and an empty name, missing and empty
\* categories, and a mixed-case first category.
ChannelEntries ==
    { [id |-> "c1", name |-> <<66>>, categories |-> << <<110, 101>> >>],
      [id |-> "c1", name |-> <<65>>, categories |-> << <<110, 69>>, <<120>> >>],
      [id |-> "c2", name |-> <<65>>],
      [id |-> "c2", name |-> <<>>, categories |-> <<>>],
      [id |-> "c2", categories |-> << <<78, 101>> >>],
      [id |-> "c3", name |-> <<66>>, categories |-> << <<110, 101>> >>],
      [name |-> <<65>>] }

JoinStreamEntries ==
    { [channel |-> "c1", url |-> "u1"], [channel |-> "c2", url |-> "u2"],
      [channel |-> "c2", url |-> ""] }

JoinLogoEntries ==
    { [channel |-> "c1", url |-> "l1"], [channel |-> "c2", url |-> "l2"] }

LookupChannels ==
    { <<>>, << [id |-> "c1", name |-> <<65>>], [id |-> "c2", name |-> <<66>>] >> }

\* Joined records handed to generate_m3u_file directly: two names, and two
\* different records under each of them.
JoinedRecords ==
    { [id |-> "c1", name |-> <<65>>, logo |-> "", group |-> <<78>>, url |-> "u1"],
      [id |-> "c2", name |-> <<65>>, logo |-> "l2", group |-> <<78>>, url |-> "u2"],
      [id |-> "c3", name |-> <<66>>, logo |-> "", group |-> <<78>>, url |-> "u1"],
      [id |-> "c1", name |-> <<66, 97>>, logo |-> "l1", group |-> <<83>>, url |-> "u2"],
      [id |-> "c2", name |-> <<>>, logo |-> "", group |-> <<83>>, url |-> "u1"] }

\* Bodies the three API URLs answer with when main runs.
MainChannelEntries ==
    { [id |-> "c1", name |-> <<66>>, categories |-> << <<110, 101>> >>],
      [id |-> "c2", name |-> <<65>>] }

MainStreamEntries ==
    { [channel |-> "c1", url |-> "u1"], [channel |-> "c2", url |-> "u2"] }

MainLogoEntries == { [channel |-> "c1", url |-> "l1"] }

----------------------------------------------------------------------------
(* Values a fetch leaves in main's variables *)

NotFetched == [kind |-> "unset", value |-> <<>>]
NoneResult == [kind |-> "none", value |-> <<>>]
Json(v) == [kind |-> "json", value |-> v]

\* bool(x) for what fetch_json returns: None and [] are false.
Truthy(r) == r.kind = "json" /\ r.value # <<>>

NoFile == [exists |-> FALSE, content |-> <<>>]
OldFile == [exists |-> TRUE, content |-> <<[tag |-> "#EXTM3U"], [tag |-> "stale"]>>]

UrlNames == {"channels", "streams", "logos"}

CallInit(ch, st, lo, at) ==
    /\ pc = at
    /\ jsonErrorClass = "requests.JSONDecodeError"
    /\ outcome = [u \in UrlNames |-> "ok"]
    /\ channels_data = Json(ch)
    /\ streams_data = Json(st)
    /\ logos_data = Json(lo)
    /\ streams_map = EmptyMap
    /\ logos_map = EmptyMap
    /\ m3u_content = <<>>
    /\ file = NoFile
    /\ file_before = NoFile
    /\ opened = FALSE
    /\ invoked = {}
    /\ console = <<>>

----------------------------------------------------------------------------
(* The functions called on their own *)

\* process_data(channels, streams, logos)
ProcessDataCall ==
    /\ pc = "call_process_data"
    /\ streams_map' = BuildMap(streams_data.value)
    /\ logos_map' = BuildMap(logos_data.value)
    /\ processed_channels' =
           process_data(channels_data.value, streams_data.value, logos_data.value)
    /\ invoked' = invoked \cup {"process_data"}
    /\ pc' = "call_generate"
    /\ UNCHANGED <<jsonErrorClass, outcome, channels_data, streams_data, logos_data,
                   m3u_content, file, file_before, opened, console>>

\* generate_m3u_file(channels): returns the text and leaves the list sorted
GenerateCall ==
    /\ pc = "call_generate"
    /\ m3u_content' = generate_m3u_file(processed_channels)
    /\ processed_channels' = SortByName(processed_channels)
    /\ invoked' = invoked \cup {"generate_m3u_file"}
    /\ pc' = "returned"
    /\ UNCHANGED <<jsonErrorClass, outcome, channels_data, streams_data, logos_data,
                   streams_map, logos_map, file, file_before, opened, console>>

NextCalls == ProcessDataCall \/ GenerateCall

InitLookup ==
    \E st \in SeqsUpTo(StreamEntries, MaxStreams),
       lo \in SeqsUpTo(LogoEntries, MaxLogos),
       ch \in LookupChannels :
        /\ CallInit(ch, st, lo, "call_process_data")
        /\ processed_channels = <<>>

SpecLookup == InitLookup /\ [][NextCalls]_vars

InitJoin ==
    \E ch \in SeqsUpTo(ChannelEntries, MaxChannels),
       st \in SeqsUpTo(JoinStreamEntries, MaxJoinStreams),
       lo \in SeqsUpTo(JoinLogoEntries, MaxJoinLogos) :
        /\ CallInit(ch, st, lo, "call_process_data")
        /\ processed_channels = <<>>

SpecJoin == InitJoin /\ [][NextCalls]_vars

InitRender ==
    \E recs \in SeqsUpTo(JoinedRecords, MaxRecords) :
        /\ CallInit(<<>>, <<>>, <<>>, "call_generate")
        /\ processed_channels = recs

SpecRender == InitRender /\ [][GenerateCall]_vars

----------------------------------------------------------------------------
(* fetch_json *)

Msg(text) == [text |-> text, about |-> ""]
FetchError(u) == [text |-> "Error descargando", about |-> u]
AbortMsg == Msg("Error: No se pudieron descargar todos los archivos de la API. Abortando.")
EmptyMsg == Msg("Error: No se pudo procesar ningun canal con stream valido.")
WriteErrorMsg == Msg("Error al escribir el archivo")
SuccessMsg == Msg("Exito! Archivo guardado")
CompletedMsg == Msg("Proceso completado")

Printed(m) == \E i \in DOMAIN console : console[i] = m

\* What a request can meet.
OutcomeKinds == {"ok", "connection_error", "timeout", "http_status", "bad_json"}
FailureKinds == OutcomeKinds \ {"ok"}

\* The exception each failure raises inside the try block: requests.get raises
\* ConnectionError or Timeout, raise_for_status raises HTTPError, and
\* response.json() raises the class this build of requests uses for a body
\* that is not JSON: requests.exceptions.JSONDecodeError, a RequestException,
\* from requests 2.27 on, and a plain ValueError (json.JSONDecodeError) before.
ExceptionOf(kind, jec) ==
    CASE kind = "connection_error" -> "requests.ConnectionError"
      [] kind = "timeout" -> "requests.Timeout"
      [] kind = "http_status" -> "requests.HTTPError"
      [] kind = "bad_json" -> jec

JsonErrorClasses == {"requests.JSONDecodeError", "ValueError"}

\* except requests.RequestException
IsRequestException(exc) ==
    exc \in {"requests.ConnectionError", "requests.Timeout", "requests.HTTPError",
             "requests.JSONDecodeError"}

\* fetch_json(url): what it returns, what it prints, whether it raises.
fetch_json(u, kind, body, jec) ==
    IF kind = "ok"
    THEN [raised |-> FALSE, ret |-> Json(body), printed |-> <<>>]
    ELSE IF IsRequestException(ExceptionOf(kind, jec))
         THEN [raised |-> FALSE, ret |-> NoneResult, printed |-> <<FetchError(u)>>]
         ELSE [raised |-> TRUE, ret |-> NotFetched, printed |-> <<>>]

----------------------------------------------------------------------------
(* main *)

Init ==
    /\ pc = "start"
    /\ jsonErrorClass \in JsonErrorClasses
    /\ outcome = [u \in UrlNames |-> "pending"]
    /\ channels_data = NotFetched
    /\ streams_data = NotFetched
    /\ logos_data = NotFetched
    /\ streams_map = EmptyMap
    /\ logos_map = EmptyMap
    /\ processed_channels = <<>>
    /\ m3u_content = <<>>
    /\ file_before \in {NoFile, OldFile}
    /\ file = file_before
    /\ opened = FALSE
    /\ invoked = {}
    /\ console = <<>>

Start ==
    /\ pc = "start"
    /\ console' = console \o <<Msg("Iniciando la generacion de la lista M3U8..."),
                               Msg("Descargando datos de la API...")>>
    /\ pc' = "fetch_channels"
    /\ UNCHANGED <<jsonErrorClass, outcome, channels_data, streams_data, logos_data,
                   streams_map, logos_map, processed_channels, m3u_content,
                   file, file_before, opened, invoked>>

\* channels_data = fetch_json(API_URLS['channels'])
FetchChannels ==
    /\ pc = "fetch_channels"
    /\ \E kind \in OutcomeKinds, body \in SeqsUpTo(MainChannelEntries, MaxBody) :
        /\ kind = "ok" \/ body = <<>>
        /\ LET r == fetch_json("channels", kind, body, jsonErrorClass)
           IN  /\ outcome' = [outcome EXCEPT !["channels"] = kind]
               /\ console' = console \o r.printed
               /\ channels_data' = r.ret
               /\ pc' = IF r.raised THEN "raised" ELSE "fetch_streams"
    /\ UNCHANGED <<jsonErrorClass, streams_data, logos_data, streams_map, logos_map,
                   processed_channels, m3u_content, file, file_before, opened, invoked>>

\* streams_data = fetch_json(API_URLS['streams'])
FetchStreams ==
    /\ pc = "fetch_streams"
    /\ \E kind \in OutcomeKinds, body \in SeqsUpTo(MainStreamEntries, MaxBody) :
        /\ kind = "ok" \/ body = <<>>
        /\ LET r == fetch_json("streams", kind, body, jsonErrorClass)
           IN  /\ outcome' = [outcome EXCEPT !["streams"] = kind]
               /\ console' = console \o r.printed
               /\ streams_data' = r.ret
               /\ pc' = IF r.raised THEN "raised" ELSE "fetch_logos"
    /\ UNCHANGED <<jsonErrorClass, channels_data, logos_data, streams_map, logos_map,
                   processed_channels, m3u_content, file, file_before, opened, invoked>>

\* logos_data = fetch_json(API_URLS['logos'])
FetchLogos ==
    /\ pc = "fetch_logos"
    /\ \E kind \in OutcomeKinds, body \in SeqsUpTo(MainLogoEntries, MaxBody) :
        /\ kind = "ok" \/ body = <<>>
        /\ LET r == fetch_json("logos", kind, body, jsonErrorClass)
           IN  /\ outcome' = [outcome EXCEPT !["logos"] = kind]
               /\ console' = console \o r.printed
               /\ logos_data' = r.ret
               /\ pc' = IF r.raised THEN "raised" ELSE "check"
    /\ UNCHANGED <<jsonErrorClass, channels_data, streams_data, streams_map, logos_map,
                   processed_channels, m3u_content, file, file_before, opened, invoked>>

AllFetched_ignoresLogos(c, s, l) == Truthy(c) /\ Truthy(s)

AllFetched_notNone(c, s, l) == c.kind = "json" /\ s.kind = "json" /\ l.kind = "json"

\* all([channels_data, streams_data, logos_data])
AllFetched(c, s, l) == Truthy(c) /\ Truthy(s) /\ Truthy(l)

\* if not all([...]): print(...); return
Check ==
    /\ pc = "check"
    /\ IF ~ AllFetched(channels_data, streams_data, logos_data)
       THEN /\ console' = Append(console, AbortMsg)
            /\ pc' = "done"
       ELSE /\ console' = Append(console, Msg("Datos descargados. Procesando y combinando..."))
            /\ pc' = "process"
    /\ UNCHANGED <<jsonErrorClass, outcome, channels_data, streams_data, logos_data,
                   streams_map, logos_map, processed_channels, m3u_content,
                   file, file_before, opened, invoked>>

NoChannels_never(processed) == FALSE

\* if not processed_channels
NoChannels(processed) == processed = <<>>

\* processed_channels = process_data(...); the empty-result abort
Process ==
    /\ pc = "process"
    /\ streams_map' = BuildMap(streams_data.value)
    /\ logos_map' = BuildMap(logos_data.value)
    /\ processed_channels' =
           process_data(channels_data.value, streams_data.value, logos_data.value)
    /\ invoked' = invoked \cup {"process_data"}
    /\ IF NoChannels(processed_channels')
       THEN /\ console' = Append(console, EmptyMsg)
            /\ pc' = "done"
       ELSE /\ console' = console \o <<Msg("Se procesaron canales con streams validos."),
                                       Msg("Generando archivo M3U8...")>>
            /\ pc' = "render"
    /\ UNCHANGED <<jsonErrorClass, outcome, channels_data, streams_data, logos_data,
                   m3u_content, file, file_before, opened>>

\* m3u_content = generate_m3u_file(processed_channels)
Render ==
    /\ pc = "render"
    /\ m3u_content' = generate_m3u_file(processed_channels)
    /\ processed_channels' = SortByName(processed_channels)
    /\ invoked' = invoked \cup {"generate_m3u_file"}
    /\ pc' = "open"
    /\ UNCHANGED <<jsonErrorClass, outcome, channels_data, streams_data, logos_data,
                   streams_map, logos_map, file, file_before, opened, console>>

\* open(OUTPUT_FILE, 'w') creates the file or truncates it to nothing.
OpenedForWriting(f) == [exists |-> TRUE, content |-> <<>>]

\* with open(OUTPUT_FILE, 'w', encoding='utf-8') as f: succeeds, or raises
\* IOError (no permission, no such directory) and leaves the file alone.
OpenFile ==
    /\ pc = "open"
    /\ \/ /\ file' = OpenedForWriting(file)
          /\ opened' = TRUE
          /\ pc' = "write"
          /\ UNCHANGED console
       \/ /\ console' = console \o <<WriteErrorMsg, CompletedMsg>>
          /\ pc' = "done"
          /\ UNCHANGED <<file, opened>>
    /\ UNCHANGED <<jsonErrorClass, outcome, channels_data, streams_data, logos_data,
                   streams_map, logos_map, processed_channels, m3u_content,
                   file_before, invoked>>

\* What is on disk when f.write or the closing flush raises IOError: the
\* lines that got out before the error.
PartialWrites(text) == {SubSeq(text, 1, k) : k \in 0..Len(text)}

\* f.write(m3u_content) and the close of the with block
WriteFile ==
    /\ pc = "write"
    /\ \/ /\ file' = [exists |-> TRUE, content |-> m3u_content]
          /\ console' = console \o <<SuccessMsg, CompletedMsg>>
       \/ /\ \E part \in PartialWrites(m3u_content) :
                file' = [exists |-> TRUE, content |-> part]
          /\ console' = console \o <<WriteErrorMsg, CompletedMsg>>
    /\ pc' = "done"
    /\ UNCHANGED <<jsonErrorClass, outcome, channels_data, streams_data, logos_data,
                   streams_map, logos_map, processed_channels, m3u_content,
                   file_before, opened, invoked>>

Next ==
    \/ Start
    \/ FetchChannels
    \/ FetchStreams
    \/ FetchLogos
    \/ Check
    \/ Process
    \/ Render
    \/ OpenFile
    \/ WriteFile

Spec == Init /\ [][Next]_vars

----------------------------------------------------------------------------
(* Vocabulary of the properties *)

channels == channels_data.value
streams == streams_data.value
logos == logos_data.value

\* A stream or logo entry with a non-empty channel and a non-empty url.
Usable(entry) ==
    /\ "channel" \in DOMAIN entry /\ entry.channel # ""
    /\ "url" \in DOMAIN entry /\ entry.url # ""

ExtinfIndexes == {k \in DOMAIN m3u_content : m3u_content[k].tag = "#EXTINF:-1"}
RenderedCount == Cardinality(ExtinfIndexes)
RenderedIds == {m3u_content[k].tvg_id : k \in ExtinfIndexes}
JoinedIds == {processed_channels[j].id : j \in DOMAIN processed_channels}

HasId(i) == "id" \in DOMAIN channels[i]
Joined == pc \in {"call_generate", "returned"}

\* The channels a stream resolves for, in channel-list order: record j of
\* process_data's result is built from the j-th of them.
Resolved ==
    SelectSeq(channels, LAMBDA c : "id" \in DOMAIN c /\ c.id \in DOMAIN streams_map)

\* s with its first character upper-cased and nothing else changed.
UpperFirst(s) == IF s = <<>> THEN <<>> ELSE <<Upper(s[1])>> \o Tail(s)

PermutationsOf(s) ==
    {[i \in 1..Len(s) |-> s[f[i]]] : f \in Permutations(1..Len(s))}

IsPrefix(a, b) == Len(a) <= Len(b) /\ a = SubSeq(b, 1, Len(a))

----------------------------------------------------------------------------
(* C1 *)

\* C1: process_data emits a record for a channel of the list if and only if
\* the channel's id is a key of the stream lookup, it emits records for
\* channels of the list only, and a channel whose id no usable stream entry
\* names appears neither in the joined result nor in the rendered playlist.
C1_JoinedIffStreamKey ==
    Joined =>
        /\ \A i \in DOMAIN channels :
              (HasId(i) /\ channels[i].id \in DOMAIN streams_map)
                  <=> (HasId(i) /\ channels[i].id \in JoinedIds)
        /\ JoinedIds \subseteq {channels[i].id : i \in {n \in DOMAIN channels : HasId(n)}}
        /\ \A i \in DOMAIN channels :
              (HasId(i) /\ ~ \E n \in DOMAIN streams :
                                Usable(streams[n]) /\ streams[n].channel = channels[i].id)
                  => /\ channels[i].id \notin JoinedIds
                     /\ channels[i].id \notin RenderedIds

\* A rendered playlist that kept one channel and dropped another whose id no
\* usable stream entry names.
C1_Witness ==
    /\ pc = "returned"
    /\ \E i, j \in DOMAIN channels :
          /\ HasId(i) /\ channels[i].id \in RenderedIds
          /\ HasId(j) /\ channels[j].id \notin DOMAIN streams_map
          /\ \E n \in DOMAIN streams :
                "channel" \in DOMAIN streams[n] /\ streams[n].channel = channels[j].id

----------------------------------------------------------------------------
(* C2 *)

\* m is the first-write-wins lookup of entries: its keys are the channels of
\* the usable entries, and each key maps to the url of the first usable entry
\* for it.  Nothing but entries is mentioned.
FirstWriteWins(m, entries) ==
    /\ DOMAIN m = {entries[i].channel : i \in {n \in DOMAIN entries : Usable(entries[n])}}
    /\ \A k \in DOMAIN m :
          \E i \in DOMAIN entries :
              /\ Usable(entries[i]) /\ entries[i].channel = k
              /\ m[k] = entries[i].url
              /\ \A j \in 1..(i - 1) : ~ (Usable(entries[j]) /\ entries[j].channel = k)
    /\ "" \notin DOMAIN m

\* C2: after process_data has built its lookups, the stream lookup is the
\* first-write-wins lookup of streams and the logo lookup is the
\* first-write-wins lookup of logos, each a function of its own collection.
C2_FirstWriteWins ==
    Joined =>
        /\ FirstWriteWins(streams_map, streams)
        /\ FirstWriteWins(logos_map, logos)

\* Two usable entries with different urls for one channel, in streams and in
\* logos, and an entry that creates no key.
C2_Witness ==
    /\ Joined
    /\ \E i, j \in DOMAIN streams :
          /\ i < j /\ Usable(streams[i]) /\ Usable(streams[j])
          /\ streams[i].channel = streams[j].channel /\ streams[i].url # streams[j].url
          /\ streams_map[streams[i].channel] = streams[i].url
    /\ \E i, j \in DOMAIN logos :
          /\ i < j /\ Usable(logos[i]) /\ Usable(logos[j])
          /\ logos[i].channel = logos[j].channel /\ logos[i].url # logos[j].url
          /\ logos_map[logos[i].channel] = logos[i].url

----------------------------------------------------------------------------
(* C3 *)

\* C3 as stated: the number of rendered entries equals the number of distinct
\* channel ids that are keys of the stream lookup and occur in the channel list.
C3_CountIsDistinctIds ==
    pc = "returned" =>
        RenderedCount =
            Cardinality({channels[i].id : i \in {n \in DOMAIN channels : HasId(n)}}
                            \cap DOMAIN streams_map)

\* C3 amended: the number of rendered entries equals the number of entries of
\* the channel list whose id is a key of the stream lookup, each occurrence of
\* a repeated id counted.
C3_CountIsResolvedEntries ==
    pc = "returned" =>
        RenderedCount =
            Cardinality({i \in DOMAIN channels :
                            HasId(i) /\ channels[i].id \in DOMAIN streams_map})

\* A channel list naming one resolvable id twice, rendered as two entries.
C3_Witness ==
    /\ pc = "returned"
    /\ RenderedCount = 2
    /\ \E i, j \in DOMAIN channels :
          /\ i # j /\ HasId(i) /\ HasId(j) /\ channels[i].id = channels[j].id
          /\ channels[i].id \in DOMAIN streams_map

----------------------------------------------------------------------------
(* C4 *)

\* C4 as stated: every permutation of the records renders to the same text.
C4_PermutationInvariant ==
    pc = "returned" =>
        \A q \in PermutationsOf(processed_channels) : generate_m3u_file(q) = m3u_content

\* No two different records share a name.
NamesIdentifyRecords(recs) ==
    \A i, j \in DOMAIN recs : recs[i].name = recs[j].name => recs[i] = recs[j]

\* C4 amended: every permutation of a sequence of records in which no two
\* different records share a name renders to the same text.
C4_PermutationInvariantDistinctNames ==
    (pc = "returned" /\ NamesIdentifyRecords(processed_channels)) =>
        \A q \in PermutationsOf(processed_channels) : generate_m3u_file(q) = m3u_content

\* Three records under three names have been rendered.
C4_Witness ==
    /\ pc = "returned"
    /\ Len(processed_channels) = 3
    /\ \A i, j \in DOMAIN processed_channels :
          i # j => processed_channels[i].name # processed_channels[j].name

----------------------------------------------------------------------------
(* C5 *)

\* C5: the group of every joined record is the channel's first category, or
\* the fallback label when there is none, with its first character
\* upper-cased and every other character as in the source.
C5_GroupKeepsRemainingCase ==
    pc = "call_generate" =>
        /\ Len(processed_channels) = Len(Resolved)
        /\ \A j \in DOMAIN processed_channels :
              processed_channels[j].group =
                  UpperFirst(IF "categories" \in DOMAIN Resolved[j]
                                  /\ Resolved[j].categories # <<>>
                             THEN Resolved[j].categories[1]
                             ELSE SIN_CATEGORIA)

----------------------------------------------------------------------------
(* C9 *)

\* C9 as stated: the name of a joined record is the channel's name when it is
\* present and non-empty, and the placeholder otherwise.
C9_PlaceholderWhenAbsentOrEmpty ==
    pc = "call_generate" =>
        /\ Len(processed_channels) = Len(Resolved)
        /\ \A j \in DOMAIN processed_channels :
              processed_channels[j].name =
                  IF "name" \in DOMAIN Resolved[j] /\ Resolved[j].name # <<>>
                  THEN Resolved[j].name
                  ELSE NOMBRE_DESCONOCIDO

\* C9 amended: the name of a joined record is the channel's name whenever the
\* channel has a name field, the empty name included, and the placeholder
\* only when the field is absent.
C9_PlaceholderOnlyWhenAbsent ==
    pc = "call_generate" =>
        /\ Len(processed_channels) = Len(Resolved)
        /\ \A j \in DOMAIN processed_channels :
              processed_channels[j].name =
                  IF "name" \in DOMAIN Resolved[j]
                  THEN Resolved[j].name
                  ELSE NOMBRE_DESCONOCIDO

\* One joined channel without a name field and one with an empty name.
C9_Witness ==
    /\ pc = "call_generate"
    /\ \E i, j \in DOMAIN processed_channels :
          /\ "name" \notin DOMAIN Resolved[i]
          /\ processed_channels[i].name = NOMBRE_DESCONOCIDO
          /\ "name" \in DOMAIN Resolved[j] /\ Resolved[j].name = <<>>
          /\ processed_channels[j].name = <<>>

----------------------------------------------------------------------------
(* Vocabulary of the properties of main *)

Results == {channels_data, streams_data, logos_data}
DataOf(u) ==
    CASE u = "channels" -> channels_data
      [] u = "streams" -> streams_data
      [] u = "logos" -> logos_data

Ended == pc \in {"done", "raised"}
SomeFetchReturnedNone == \E d \in Results : d.kind = "none"
FilePlayable == file.exists /\ file.content = m3u_content /\ m3u_content # <<>>

\* The ways a run fails.  A fetch fails for main when fetch_json raises,
\* returns None or returns an empty dataset.
FetchFailed == pc = "raised" \/ \E d \in Results : ~ Truthy(d)
JoinFoundNothing == "process_data" \in invoked /\ processed_channels = <<>>
OpenFailed == pc = "done" /\ "generate_m3u_file" \in invoked /\ ~ opened
WriteFailed == pc = "done" /\ opened /\ Printed(WriteErrorMsg)

----------------------------------------------------------------------------
(* C6 *)

\* C6: once a fetch has returned None, main never invokes process_data or
\* generate_m3u_file and never opens or writes the output file; fetch_json
\* has printed its diagnostic, and main ends by printing that the download
\* failed.
C6_FetchFailureAborts ==
    SomeFetchReturnedNone =>
        /\ invoked = {}
        /\ ~ opened
        /\ file = file_before
        /\ \E u \in UrlNames : DataOf(u).kind = "none" /\ Printed(FetchError(u))
        /\ pc \in {"fetch_streams", "fetch_logos", "check", "done", "raised"}
        /\ pc = "done" => Printed(AbortMsg)

\* main has returned after the streams fetch alone returned None.
C6_Witness ==
    /\ pc = "done"
    /\ streams_data.kind = "none"
    /\ Truthy(channels_data) /\ Truthy(logos_data)
    /\ Printed(AbortMsg)

----------------------------------------------------------------------------
(* C7 *)

\* C7 as stated: when a run has ended in a failure, the output file is
\* untouched or holds the complete rendered playlist.
C7_NoPartialFile ==
    (Ended /\ ~ Printed(SuccessMsg)) => (file = file_before \/ FilePlayable)

\* C7 amended: a run that fails to fetch, joins nothing or cannot open the
\* output file leaves the file untouched; a run that fails while writing
\* leaves the file truncated by the open, holding a prefix of the rendered
\* playlist that may be empty or incomplete; a run that reports success
\* leaves the complete playlist.
C7_PartialFileOnlyOnWriteFailure ==
    Ended =>
        /\ (FetchFailed \/ JoinFoundNothing \/ OpenFailed) => file = file_before
        /\ WriteFailed => (file.exists /\ IsPrefix(file.content, m3u_content))
        /\ Printed(SuccessMsg) => FilePlayable
        /\ FetchFailed \/ JoinFoundNothing \/ OpenFailed \/ WriteFailed
              \/ Printed(SuccessMsg)

\* A write failure has left a file that is neither the old one nor the
\* complete playlist.
C7_Witness ==
    /\ pc = "done"
    /\ WriteFailed
    /\ file_before = OldFile
    /\ file.content # m3u_content
    /\ file # file_before

----------------------------------------------------------------------------
(* C8 *)

\* C8: fetch_json never propagates an error: every failed request leaves None
\* in main's variable and a diagnostic naming the URL on the console, and a
\* parsed value is returned only for a request that succeeded.
C8_FetchNeverRaises ==
    /\ pc # "raised"
    /\ \A u \in UrlNames :
          /\ outcome[u] \in FailureKinds
                => (DataOf(u) = NoneResult /\ Printed(FetchError(u)))
          /\ DataOf(u).kind = "json" => outcome[u] = "ok"

----------------------------------------------------------------------------
(* C10 *)

\* C10: when all three fetches succeed and one of the parsed values is an
\* empty collection, main prints the download-failure diagnostic and ends
\* without invoking process_data and without touching the output file;
\* process_data is invoked only with three non-empty datasets.
C10_EmptyDatasetAborts ==
    /\ ((\A u \in UrlNames : outcome[u] = "ok") /\ (\E d \in Results : d.value = <<>>))
          => /\ pc \in {"check", "done"}
             /\ invoked = {}
             /\ ~ opened
             /\ file = file_before
             /\ pc = "done" => Printed(AbortMsg)
    /\ "process_data" \in invoked
          => \A d \in Results : d.kind = "json" /\ d.value # <<>>

\* All three fetches succeeded, logos is the empty array, and main has
\* returned after the download-failure diagnostic.
C10_Witness ==
    /\ pc = "done"
    /\ \A u \in UrlNames : outcome[u] = "ok"
    /\ logos_data = Json(<<>>)
    /\ channels_data.value # <<>> /\ streams_data.value # <<>>
    /\ Printed(AbortMsg)
    /\ invoked = {}

====
